---- MODULE Spec2Model ----
(***************************************************************************)
(* Import reconciliation workflow of MyKaasu                               *)
(* (frontend/src/components/ImportPage.tsx) and the summary and expense    *)
(* list of its dashboard (frontend/src/components/Dashboard.tsx).          *)
(*                                                                         *)
(* The React component is modelled as a state machine: one variable per    *)
(* useState cell, one action per event handler.  An async handler is split *)
(* at its await: the click part captures the render's values (the          *)
(* closure) in a request in flight, the completion part runs the rest of   *)
(* the handler on the captured values.  The useEffect that recomputes      *)
(* filteredExpenses is part of every action that changes one of its        *)
(* dependencies.                                                           *)
(*                                                                         *)
(* Conventions: a string of the UI that the code only tests for            *)
(* truthiness uses "" for both '' and undefined; owed_share, whose absence *)
(* matters, is <<>> when absent and <<n>> when present; amounts are        *)
(* integers (minor units); dates are day numbers, 0 standing for the empty *)
(* date input; descriptions and the search query are sequences of          *)
(* characters.  The dashboard's amounts are JavaScript Numbers, modelled   *)
(* as IEEE 754 doubles with their rounding; the dates of the import form   *)
(* are << year, month, day >>, << >> standing for the empty input.         *)
(*                                                                         *)
(* Specifications: Spec (import page), SpecSeq (import page, the user      *)
(* waiting for every create request), SpecForm (import form), SpecDash     *)
(* (dashboard summary over fetched lists), SpecPages (dashboard expense    *)
(* list over a collection of more than one page).                          *)
(***************************************************************************)
EXTENDS Integers, Sequences, FiniteSets, TLC

\* ---------------------------------------------------------------- bounds
\* A run follows the main line (one import that is answered with the batch, one
\* review session carried to its end, create requests accepted and one in flight
\* at a time, fetched values, no filter) and leaves it at most MaxExtra times: by
\* opening the import form again after an import (the import that follows, and
\* its failure, are then free), a first import that fails, an import repeated
\* after a failure, an import that comes back without expenses, a rejected
\* create request, a further create request in flight, an edit in the modal,
\* the setting of a filter, a
\* further review session, or the closing of the modal (which pays for the
\* session that follows it).
MaxExtra == 1

\* ------------------------------------------------------------ sequences
RECURSIVE SelectSeq2(_, _)
\* Array.prototype.filter with the predicate given as the set of kept elements
SelectSeq2(s, keep) ==
  IF s = <<>> THEN <<>>
  ELSE IF Head(s) \in keep THEN <<Head(s)>> \o SelectSeq2(Tail(s), keep)
       ELSE SelectSeq2(Tail(s), keep)

Range(s) == {s[i] : i \in DOMAIN s}

Ids(s) == {s[i].id : i \in DOMAIN s}

\* ------------------------------------------------------ JavaScript values
\* String.prototype.toLowerCase on the characters the model uses
LowerChar(c) == CASE c = "T" -> "t" [] c = "B" -> "b" [] OTHER -> c

ToLower(s) == [i \in DOMAIN s |-> LowerChar(s[i])]

\* String.prototype.includes
Includes(s, q) == \E i \in 0..(Len(s) - Len(q)) : SubSeq(s, i + 1, i + Len(q)) = q

\* a || b on numbers, a optional (undefined and 0 are falsy)
OrNum(a, b) == IF a # <<>> /\ a[1] # 0 THEN a[1] ELSE b

\* a || b on strings ('' and undefined are falsy)
OrStr(a, b) == IF a # "" THEN a ELSE b

\* editingExpense === null (or undefined, after expensesToAdd[0] of an empty array)
Null == [null |-> TRUE]

\* --------------------------------------------------------------- fixtures
\* Groups the backend returns to fetchGroups
GroupList == << [id |-> "g1", name |-> "Trip"] >>

\* The raw batch of the provider: e0 was imported earlier, e1 is an ordinary
\* record, e2 has no splitwise_id and an owed_share of 0, e3 has no owed_share.
Batch ==
  << [id |-> "e0", description |-> <<"T", "e">>, amount |-> 4, currency |-> "USD",
      date |-> 1, category |-> "food", expense_type |-> "borrowed",
      owed_share |-> <<4>>, paid_share |-> 0, splitwise_id |-> "sw0", group_id |-> ""],
     [id |-> "e1", description |-> <<"T", "a">>, amount |-> 10, currency |-> "USD",
      date |-> 1, category |-> "food", expense_type |-> "borrowed",
      owed_share |-> <<10>>, paid_share |-> 0, splitwise_id |-> "sw1", group_id |-> ""],
     [id |-> "e2", description |-> <<"B", "u">>, amount |-> 5, currency |-> "INR",
      date |-> 2, category |-> "", expense_type |-> "lent",
      owed_share |-> <<0>>, paid_share |-> 5, splitwise_id |-> "", group_id |-> ""],
     [id |-> "e3", description |-> <<"t", "u">>, amount |-> 7, currency |-> "USD",
      date |-> 3, category |-> "fun", expense_type |-> "personal",
      owed_share |-> <<>>, paid_share |-> 0, splitwise_id |-> "sw3", group_id |-> ""] >>

\* The record of the batch with a given id
Fetched(id) == CHOOSE r \in Range(Batch) : r.id = id

\* The Expense store before the first import: e0 is there already
InitStore ==
  << [id |-> 1, description |-> <<"T", "e">>, amount |-> 4, currency |-> "USD",
      date |-> 1, category |-> "food", group_id |-> "", group_name |-> "",
      expense_type |-> "borrowed", owed_share |-> 4, paid_share |-> 0,
      splitwise_id |-> "sw0"] >>

\* new Date().getFullYear().toString() when the page is constructed (line 63)
CurrentYear == "2026"

\* Dates, months and years the user enters in the import form; a date is
\* << year, month, day >> and an empty input is << >> or ""
WindowDateInputs == { <<2026, 1, 15>> }
MonthInputs == { "2" }
YearInputs == { "2024" }

\* Values the user types or picks in the filter panel and in the edit modal
SearchInputs == { <<"t">> }
CategoryInputs == { "food" }
TypeInputs == { "lent" }
DateInputs == { 2 }
DateEdits == { 3 }
DescriptionEdits == { <<"t", "a">> }
AmountEdits == { <<>>, <<0>>, <<15>> }
CurrencyEdits == { "EUR" }
CategoryEdits == { "" }

\* ------------------------------------------------------------------ state
VARIABLES
  store,               \* backend: the user's persisted Expenses, in creation order
  groups,              \* useState groups (line 76)
  importedExpenses,    \* line 50
  filteredExpenses,    \* line 51
  selectedExpenses,    \* line 52
  loading,             \* line 53; TRUE exactly while the import request is in flight
  message,             \* line 55
  error,               \* line 56
  searchQuery,         \* line 70
  filterCategory,      \* line 66
  filterType,          \* line 67
  filterDateFrom,      \* line 68
  filterDateTo,        \* line 69
  showEditModal,       \* line 73
  expensesToConfirm,   \* line 74
  editingExpenseIndex, \* line 75
  editingExpense,      \* line 77
  showImportForm,      \* line 57
  importMode,          \* line 59
  startDate,           \* line 60
  endDate,             \* line 61
  selectedMonth,       \* line 62
  selectedYear,        \* line 63
  importPayload,       \* the body of the latest POST /splitwise/import
  saveReqs,            \* POST /expenses requests in flight, each with the closure of its click
  refreshCalls,        \* number of calls of the onExpenseAdded prop
  msgTimers,           \* pending setTimeout(() => setMessage(''), 3000)
  nFetches,            \* history: import requests issued
  session,             \* history: review sessions started
  extra,               \* history: steps off the main line
  closed,              \* history: the modal was closed and no session started since
  sessionIds,          \* history: candidate ids of the current session's subset
  sessionStart,        \* history: Len(store) when the current session started
  savedPos,            \* history: positions of the current session whose Save succeeded
  savedIds,            \* history: ids of the candidates whose Save succeeded
  advances,            \* history: Skips and successful Saves of the current session
  expenses,            \* Dashboard.tsx, useState expenses (line 83)
  income,              \* Dashboard.tsx, useState income (line 85)
  expensesPage,        \* Dashboard.tsx, line 93
  expensesTotal,       \* Dashboard.tsx, line 95
  expensesTotalPages,  \* Dashboard.tsx, line 96
  loadingExpenses,     \* Dashboard.tsx, line 97
  pageReqs,            \* GET /expenses requests in flight: the page each asks for
  clearReqs,           \* DELETE /expenses/:id requests in flight, each with its closure
  nClears,             \* history: expenses deleted from the dashboard
  answered             \* history: the lists of the dashboard that were fetched

uiVars == << groups, importedExpenses, filteredExpenses, selectedExpenses, loading,
             message, error, searchQuery, filterCategory, filterType, filterDateFrom,
             filterDateTo, showEditModal, expensesToConfirm, editingExpenseIndex,
             editingExpense >>

filterVars == << searchQuery, filterCategory, filterType, filterDateFrom, filterDateTo >>

reviewVars == << showEditModal, expensesToConfirm, editingExpenseIndex, editingExpense >>

histVars == << nFetches, session, extra, closed, sessionIds, sessionStart,
               savedPos, savedIds, advances >>

\* the import form and the request it sends
formVars == << showImportForm, importMode, startDate, endDate, selectedMonth,
               selectedYear, importPayload >>

\* the state of the import page and of the backend behind it
importVars == << store, uiVars, formVars, saveReqs, refreshCalls, msgTimers, histVars >>

\* the state of the dashboard that the summary cards are computed from
dashVars == << expenses, income, expensesPage, expensesTotal, expensesTotalPages,
               loadingExpenses, pageReqs, clearReqs, nClears, answered >>

\* the paging state of the expense list
pageVars == << expensesPage, expensesTotal, expensesTotalPages >>

vars == << importVars, dashVars >>

NoMessage == [kind |-> "none"]

\* the filter inputs when empty
NoFilter == << <<>>, "", "", 0, 0 >>

\* ------------------------------------------------------------ pure parts
\* ExtId without the fallback to id
ExtIdLeftOnly(e) == e.splitwise_id

\* The external id the workflow sends for a candidate (line 196)
ExtId(e) == OrStr(e.splitwise_id, e.id)

\* applyFilters (lines 101-127), as a function of the list and the five filters
ApplyFilters(list, q, cat, typ, from, to) ==
  LET keep == { e \in Range(list) :
                  /\ (q # <<>> => Includes(ToLower(e.description), ToLower(q)))
                  /\ (cat # "" => e.category = cat)
                  /\ (typ # "" => e.expense_type = typ)
                  /\ (from # 0 => e.date >= from)
                  /\ (to # 0 => e.date <= to) }
  IN SelectSeq2(list, keep)

\* the amount expression of lines 187 and 194
AmountOf(e) == OrNum(e.owed_share, OrNum(<<e.amount>>, 0))

\* groups.find(g => g.id === group_id)?.name || '' (line 192)
GroupName(gs, gid) ==
  IF \E i \in DOMAIN gs : gs[i].id = gid
  THEN OrStr((gs[CHOOSE i \in DOMAIN gs : gs[i].id = gid]).name, "")
  ELSE ""

\* expenseData (lines 185-197)
ExpenseData(e, gs) ==
  [ description |-> e.description,
    amount |-> AmountOf(e),
    currency |-> e.currency,
    date |-> e.date,
    category |-> OrStr(e.category, ""),
    group_id |-> OrStr(e.group_id, ""),
    group_name |-> GroupName(gs, e.group_id),
    expense_type |-> OrStr(e.expense_type, "borrowed"),
    owed_share |-> AmountOf(e),
    paid_share |-> OrNum(<<e.paid_share>>, 0),
    splitwise_id |-> ExtId(e) ]

\* POST /expenses accepted: the store assigns the id and keeps the record
Created(st, data) ==
  Append(st, [id |-> Len(st) + 1] @@ data)

\* The external id of a raw record of the provider
RecordExtId(r) == IF r.splitwise_id # "" THEN r.splitwise_id ELSE r.id

\* POST /splitwise/import answered: the batch, each record labelled already_imported
\* exactly when its external id is that of a stored Expense
Labelled(st) ==
  [i \in DOMAIN Batch |->
     Batch[i] @@ [already_imported |->
                    \E j \in DOMAIN st : st[j].splitwise_id = RecordExtId(Batch[i])]]

\* NewExpenses without the filter
NewExpensesUnfiltered(responseExpenses) == responseExpenses

\* response.data.expenses.filter(e => !e.already_imported) (line 148)
NewExpenses(responseExpenses) ==
  SelectSeq2(responseExpenses, { e \in Range(responseExpenses) : ~e.already_imported })

\* the modal is rendered (line 617): only then are its inputs and buttons there,
\* and its overlay covers the rest of the page
ModalShown == showEditModal /\ editingExpense # Null

\* the state after construction, the backend holding the Expenses st
InitWith(st) ==
  /\ store = st
  /\ groups = <<>>
  /\ importedExpenses = <<>>
  /\ filteredExpenses = <<>>
  /\ selectedExpenses = {}
  /\ loading = FALSE
  /\ message = NoMessage
  /\ error = ""
  /\ searchQuery = <<>>
  /\ filterCategory = ""
  /\ filterType = ""
  /\ filterDateFrom = 0
  /\ filterDateTo = 0
  /\ showEditModal = FALSE
  /\ expensesToConfirm = <<>>
  /\ editingExpenseIndex = 0
  /\ editingExpense = Null
  /\ saveReqs = <<>>
  /\ refreshCalls = 0
  /\ msgTimers = 0
  /\ nFetches = 0
  /\ session = 0
  /\ extra = 0
  /\ closed = FALSE
  /\ sessionIds = <<>>
  /\ sessionStart = 0
  /\ savedPos = {}
  /\ advances = 0
  /\ savedIds = {}
  /\ showImportForm = FALSE
  /\ importMode = "dateRange"
  /\ startDate = <<>>
  /\ endDate = <<>>
  /\ selectedMonth = ""
  /\ selectedYear = CurrentYear
  /\ importPayload = [start_date |-> <<>>, end_date |-> <<>>]
  /\ expenses = <<>>
  /\ income = <<>>
  /\ expensesPage = 1
  /\ expensesTotal = 0
  /\ expensesTotalPages = 1
  /\ loadingExpenses = FALSE
  /\ pageReqs = <<>>
  /\ clearReqs = <<>>
  /\ nClears = 0
  /\ answered = {}

Init == InitWith(InitStore)

\* ---------------------------------------------------------------- actions
\* the useEffect of lines 79-81, run on the values the action leaves
Refiltered(list) ==
  ApplyFilters(list, searchQuery', filterCategory', filterType', filterDateFrom',
               filterDateTo')

\* fetchGroups (lines 87-99), its request answered (a request that fails leaves
\* groups empty, lines 96-98)
FetchGroupsOk ==
  /\ groups = <<>>
  /\ groups' = GroupList
  /\ UNCHANGED dashVars
  /\ UNCHANGED formVars
  /\ UNCHANGED << store, importedExpenses, filteredExpenses, selectedExpenses, loading,
                  message, error, filterVars, reviewVars, saveReqs, refreshCalls,
                  msgTimers, histVars >>

\* the header button "Import from Splitwise" / "Cancel" (lines 312-317)
ToggleImportForm ==
  /\ ~ModalShown
  /\ (~showImportForm /\ nFetches > 0) => extra < MaxExtra
  /\ showImportForm' = ~showImportForm
  /\ extra' = IF ~showImportForm /\ nFetches > 0 THEN extra + 1 ELSE extra
  /\ UNCHANGED dashVars
  /\ UNCHANGED << importMode, startDate, endDate, selectedMonth, selectedYear,
                  importPayload >>
  /\ UNCHANGED << store, uiVars, saveReqs, refreshCalls, msgTimers, nFetches, session,
                  closed, sessionIds, sessionStart, savedPos, advances, savedIds >>

\* handleImportExpenses up to its await (lines 129-144): the payload carries
\* start_date and end_date when the inputs are not empty (<< >> stands for a key
\* left out); the button is in the form (line 321), disabled by line 427
HandleImportExpenses ==
  /\ ~ModalShown
  /\ showImportForm
  /\ ~(loading \/ (importMode = "monthYear" /\ (selectedMonth = "" \/ selectedYear = "")))
  /\ (nFetches > 0 /\ error # "") => extra < MaxExtra
  /\ error' = ""
  /\ message' = NoMessage
  /\ loading' = TRUE
  /\ importPayload' = [start_date |-> startDate, end_date |-> endDate]
  /\ nFetches' = nFetches + 1
  /\ extra' = IF nFetches > 0 /\ error # "" THEN extra + 1 ELSE extra
  /\ UNCHANGED dashVars
  /\ UNCHANGED << showImportForm, importMode, startDate, endDate, selectedMonth,
                  selectedYear >>
  /\ UNCHANGED << store, groups, importedExpenses, filteredExpenses, selectedExpenses,
                  filterVars, reviewVars, saveReqs, refreshCalls, msgTimers, session,
                  closed, sessionIds, sessionStart, savedPos, advances, savedIds >>

\* handleImportExpenses after its await, response with expenses (lines 146-150, 156-164)
ImportOk ==
  /\ loading
  /\ LET responseExpenses == Labelled(store)
         newExpenses == NewExpenses(responseExpenses)
     IN /\ importedExpenses' = newExpenses
        /\ message' = [kind |-> "found", new |-> Len(newExpenses),
                       old |-> Len(responseExpenses) - Len(newExpenses)]
        /\ UNCHANGED filterVars
        /\ filteredExpenses' = Refiltered(newExpenses)
  /\ showImportForm' = FALSE
  /\ startDate' = <<>>
  /\ endDate' = <<>>
  /\ selectedMonth' = ""
  /\ UNCHANGED << importMode, selectedYear, importPayload >>
  /\ loading' = FALSE
  /\ UNCHANGED dashVars
  /\ UNCHANGED << store, groups, selectedExpenses, error, reviewVars, saveReqs,
                  refreshCalls, msgTimers, histVars >>

\* handleImportExpenses after its await, response without expenses (lines 151-164)
ImportEmpty ==
  /\ loading
  /\ extra < MaxExtra
  /\ importedExpenses' = <<>>
  /\ message' = [kind |-> "nothing"]
  /\ UNCHANGED filterVars
  /\ filteredExpenses' = Refiltered(<<>>)
  /\ showImportForm' = FALSE
  /\ startDate' = <<>>
  /\ endDate' = <<>>
  /\ selectedMonth' = ""
  /\ UNCHANGED << importMode, selectedYear, importPayload >>
  /\ loading' = FALSE
  /\ extra' = extra + 1
  /\ UNCHANGED dashVars
  /\ UNCHANGED << store, groups, selectedExpenses, error, reviewVars, saveReqs,
                  refreshCalls, msgTimers, nFetches, session, closed, sessionIds, sessionStart,
                  savedPos, advances, savedIds >>

\* ImportFail that empties the candidate list as a response without expenses does
ImportFailEmpties ==
  /\ loading
  /\ nFetches = 1 => extra < MaxExtra
  /\ error' = "Failed to import expenses"
  /\ importedExpenses' = <<>>
  /\ UNCHANGED filterVars
  /\ filteredExpenses' = Refiltered(<<>>)
  /\ loading' = FALSE
  /\ extra' = IF nFetches = 1 THEN extra + 1 ELSE extra
  /\ UNCHANGED dashVars
  /\ UNCHANGED formVars
  /\ UNCHANGED << store, groups, selectedExpenses, message, reviewVars, saveReqs,
                  refreshCalls, msgTimers, nFetches, session, closed, sessionIds,
                  sessionStart, savedPos, advances, savedIds >>

\* handleImportExpenses, request failed (lines 160-164)
ImportFail ==
  /\ loading
  /\ nFetches = 1 => extra < MaxExtra
  /\ error' = "Failed to import expenses"
  /\ loading' = FALSE
  /\ extra' = IF nFetches = 1 THEN extra + 1 ELSE extra
  /\ UNCHANGED dashVars
  /\ UNCHANGED formVars
  /\ UNCHANGED << store, groups, importedExpenses, filteredExpenses, selectedExpenses,
                  message, filterVars, reviewVars, saveReqs, refreshCalls, msgTimers,
                  nFetches, session, closed, sessionIds, sessionStart, savedPos, advances,
                  savedIds >>

\* the filter inputs (lines 450-501) and Clear Filters (lines 505-511), with the
\* useEffect that follows; the panel exists while the list is not empty (line 444)
SetFilters(q, cat, typ, from, to) ==
  /\ ~ModalShown
  /\ Len(importedExpenses) > 0
  /\ << q, cat, typ, from, to >> # filterVars
  /\ << q, cat, typ, from, to >> # NoFilter => extra < MaxExtra
  /\ searchQuery' = q
  /\ filterCategory' = cat
  /\ filterType' = typ
  /\ filterDateFrom' = from
  /\ filterDateTo' = to
  /\ filteredExpenses' = Refiltered(importedExpenses)
  /\ extra' = IF << q, cat, typ, from, to >> # NoFilter THEN extra + 1 ELSE extra
  /\ UNCHANGED dashVars
  /\ UNCHANGED formVars
  /\ UNCHANGED << store, groups, importedExpenses, selectedExpenses, loading, message,
                  error, reviewVars, saveReqs, refreshCalls, msgTimers, nFetches,
                  session, closed, sessionIds, sessionStart, savedPos, advances, savedIds >>

SetSearchQuery ==
  \E q \in SearchInputs \cup { <<>> } :
    SetFilters(q, filterCategory, filterType, filterDateFrom, filterDateTo)

SetFilterCategory ==
  \E c \in CategoryInputs \cup { "" } :
    SetFilters(searchQuery, c, filterType, filterDateFrom, filterDateTo)

SetFilterType ==
  \E t \in TypeInputs \cup { "" } :
    SetFilters(searchQuery, filterCategory, t, filterDateFrom, filterDateTo)

SetFilterDateFrom ==
  \E d \in DateInputs \cup { 0 } :
    SetFilters(searchQuery, filterCategory, filterType, d, filterDateTo)

SetFilterDateTo ==
  \E d \in DateInputs \cup { 0 } :
    SetFilters(searchQuery, filterCategory, filterType, filterDateFrom, d)

ClearFilters == SetFilters(NoFilter[1], NoFilter[2], NoFilter[3], NoFilter[4], NoFilter[5])

\* toggleExpenseSelection (lines 245-253), from a card of the list (line 562)
ToggleExpenseSelection ==
  /\ ~ModalShown
  /\ \E id \in Ids(filteredExpenses) :
       selectedExpenses' = IF id \in selectedExpenses
                           THEN selectedExpenses \ {id}
                           ELSE selectedExpenses \cup {id}
  /\ UNCHANGED dashVars
  /\ UNCHANGED formVars
  /\ UNCHANGED << store, groups, importedExpenses, filteredExpenses, loading, message,
                  error, filterVars, reviewVars, saveReqs, refreshCalls, msgTimers,
                  histVars >>

\* selectAll (lines 255-261); its button exists while the list is not empty (line 533)
SelectAll ==
  /\ ~ModalShown
  /\ Len(importedExpenses) > 0
  /\ selectedExpenses' = IF Cardinality(selectedExpenses) = Len(filteredExpenses)
                         THEN {}
                         ELSE Ids(filteredExpenses)
  /\ UNCHANGED dashVars
  /\ UNCHANGED formVars
  /\ UNCHANGED << store, groups, importedExpenses, filteredExpenses, loading, message,
                  error, filterVars, reviewVars, saveReqs, refreshCalls, msgTimers,
                  histVars >>

\* handleAddToExpenses (lines 167-178); "Add Selected" exists while the list is not
\* empty and is disabled while nothing is selected (lines 290-299)
HandleAddToExpenses ==
  /\ ~ModalShown
  /\ Len(importedExpenses) > 0
  /\ selectedExpenses # {}
  /\ (session > 0 /\ ~closed) => extra < MaxExtra
  /\ IF Cardinality(selectedExpenses) = 0
     THEN /\ error' = "Please select at least one expense to add"
          /\ UNCHANGED << reviewVars, session, extra, closed, sessionIds,
                          sessionStart, savedPos, advances >>
     ELSE LET expensesToAdd ==
                SelectSeq2(filteredExpenses,
                           { e \in Range(filteredExpenses) : e.id \in selectedExpenses })
          IN /\ expensesToConfirm' = expensesToAdd
             /\ editingExpense' = IF Len(expensesToAdd) > 0 THEN expensesToAdd[1] ELSE Null
             /\ editingExpenseIndex' = 0
             /\ showEditModal' = TRUE
             /\ session' = session + 1
             /\ extra' = IF session > 0 /\ ~closed THEN extra + 1 ELSE extra
             /\ closed' = FALSE
             /\ sessionIds' = [i \in DOMAIN expensesToAdd |-> expensesToAdd[i].id]
             /\ sessionStart' = Len(store)
             /\ savedPos' = {}
             /\ advances' = 0
             /\ UNCHANGED error
  /\ UNCHANGED dashVars
  /\ UNCHANGED formVars
  /\ UNCHANGED << store, groups, importedExpenses, filteredExpenses, selectedExpenses,
                  loading, message, filterVars, saveReqs, refreshCalls, msgTimers,
                  nFetches, savedIds >>

\* an onChange of the modal (lines 628-695): editingExpense is replaced by a copy
\* with one field changed
Edit(e) ==
  /\ ModalShown
  /\ extra < MaxExtra
  /\ e # editingExpense
  /\ editingExpense' = e
  /\ extra' = extra + 1
  /\ UNCHANGED dashVars
  /\ UNCHANGED formVars
  /\ UNCHANGED << store, groups, importedExpenses, filteredExpenses, selectedExpenses,
                  loading, message, error, filterVars, showEditModal, expensesToConfirm,
                  editingExpenseIndex, saveReqs, refreshCalls, msgTimers, nFetches,
                  session, closed, sessionIds, sessionStart, savedPos, advances, savedIds >>

\* lines 630-634
EditDescription ==
  \E v \in DescriptionEdits : Edit([editingExpense EXCEPT !.description = v])

\* lines 640-648: owed_share: parseFloat(e.target.value) || 0, the input being
\* <<>> when it does not parse
EditAmount ==
  \E v \in AmountEdits : Edit([editingExpense EXCEPT !.owed_share = <<OrNum(v, 0)>>])

\* lines 653-657
EditCurrency ==
  \E v \in CurrencyEdits : Edit([editingExpense EXCEPT !.currency = v])

\* lines 664-668
EditDate ==
  \E v \in DateEdits : Edit([editingExpense EXCEPT !.date = v])

\* lines 673-677
EditCategory ==
  \E v \in CategoryEdits : Edit([editingExpense EXCEPT !.category = v])

\* lines 683-694: the options are "No Group" and the groups fetched
EditGroup ==
  \E v \in {""} \cup {groups[i].id : i \in DOMAIN groups} :
    Edit([editingExpense EXCEPT !.group_id = v])

\* HandleSaveExpense submitting the request twice
HandleSaveExpenseTwice ==
  /\ ModalShown
  /\ saveReqs = <<>>
  /\ LET req == [ data |-> ExpenseData(editingExpense, groups),
                  idx |-> editingExpenseIndex,
                  confirm |-> expensesToConfirm,
                  imported |-> importedExpenses,
                  selected |-> selectedExpenses,
                  exp |-> editingExpense,
                  sess |-> session ]
     IN saveReqs' = << req, req >>
  /\ UNCHANGED dashVars
  /\ UNCHANGED formVars
  /\ UNCHANGED << store, uiVars, refreshCalls, msgTimers, histVars >>

\* handleSaveExpense up to its await (lines 180-203): the request carries
\* expenseData; the rest of the handler will run on the values of this render
HandleSaveExpense ==
  /\ ModalShown
  /\ saveReqs # <<>> => extra < MaxExtra
  /\ editingExpense # Null
  /\ extra' = IF saveReqs # <<>> THEN extra + 1 ELSE extra
  /\ saveReqs' = Append(saveReqs,
                        [ data |-> ExpenseData(editingExpense, groups),
                          idx |-> editingExpenseIndex,
                          confirm |-> expensesToConfirm,
                          imported |-> importedExpenses,
                          selected |-> selectedExpenses,
                          exp |-> editingExpense,
                          sess |-> session ])
  /\ UNCHANGED dashVars
  /\ UNCHANGED formVars
  /\ UNCHANGED << store, uiVars, refreshCalls, msgTimers, nFetches, session,
                  closed, sessionIds, sessionStart, savedPos, advances, savedIds >>

\* saveReqs without its k-th request
Without(k) == SubSeq(saveReqs, 1, k - 1) \o SubSeq(saveReqs, k + 1, Len(saveReqs))

\* SaveOk that stays on the candidate it saved
SaveOkStay(k) ==
  /\ store' = Created(store, saveReqs[k].data)
  /\ saveReqs' = Without(k)
  /\ savedIds' = savedIds \cup {saveReqs[k].exp.id}
  /\ savedPos' = IF saveReqs[k].sess = session
                 THEN savedPos \cup {saveReqs[k].idx} ELSE savedPos
  /\ advances' = IF saveReqs[k].sess = session THEN advances + 1 ELSE advances
  /\ UNCHANGED dashVars
  /\ UNCHANGED formVars
  /\ UNCHANGED << uiVars, refreshCalls, msgTimers, nFetches, session, extra,
                  closed, sessionIds, sessionStart >>

\* SaveOk that overwrites the latest Expense (an update) and stays where it is
SaveOkReplaces(k) ==
  /\ store' = [store EXCEPT ![Len(store)] = [id |-> Len(store)] @@ saveReqs[k].data]
  /\ saveReqs' = Without(k)
  /\ savedIds' = savedIds \cup {saveReqs[k].exp.id}
  /\ savedPos' = IF saveReqs[k].sess = session
                 THEN savedPos \cup {saveReqs[k].idx} ELSE savedPos
  /\ advances' = IF saveReqs[k].sess = session THEN advances + 1 ELSE advances
  /\ UNCHANGED dashVars
  /\ UNCHANGED formVars
  /\ UNCHANGED << uiVars, refreshCalls, msgTimers, nFetches, session, extra,
                  closed, sessionIds, sessionStart >>

\* handleSaveExpense after its await, request k accepted (lines 205-223)
SaveOk(k) ==
  LET r == saveReqs[k]
      nextIndex == r.idx + 1
  IN /\ store' = Created(store, r.data)
     /\ saveReqs' = Without(k)
     /\ savedIds' = savedIds \cup {r.exp.id}
     /\ savedPos' = IF r.sess = session THEN savedPos \cup {r.idx} ELSE savedPos
     /\ advances' = IF r.sess = session THEN advances + 1 ELSE advances
     /\ IF nextIndex < Len(r.confirm)
        THEN /\ editingExpenseIndex' = nextIndex
             /\ editingExpense' = r.confirm[nextIndex + 1]
             /\ UNCHANGED << showEditModal, message, importedExpenses, filteredExpenses,
                             selectedExpenses, expensesToConfirm, refreshCalls,
                             msgTimers >>
        ELSE /\ showEditModal' = FALSE
             /\ message' = [kind |-> "added", n |-> Len(r.confirm)]
             /\ importedExpenses' =
                  SelectSeq2(r.imported, { e \in Range(r.imported) : e.id \notin r.selected })
             /\ selectedExpenses' = {}
             /\ expensesToConfirm' = <<>>
             /\ editingExpense' = Null
             /\ editingExpenseIndex' = 0
             /\ refreshCalls' = refreshCalls + 1
             /\ msgTimers' = msgTimers + 1
             /\ UNCHANGED filterVars
             /\ filteredExpenses' = Refiltered(importedExpenses')
     /\ UNCHANGED dashVars
     /\ UNCHANGED formVars
     /\ UNCHANGED << groups, loading, error, filterVars, nFetches, session, extra,
                     closed, sessionIds, sessionStart >>

SaveAccepted == \E k \in DOMAIN saveReqs : SaveOk(k)

\* SaveFail that moves on to the next candidate as a success does
SaveFailAdvances(k) ==
  /\ extra < MaxExtra
  /\ saveReqs' = Without(k)
  /\ error' = "Failed to save expense"
  /\ extra' = extra + 1
  /\ editingExpenseIndex' = saveReqs[k].idx + 1
  /\ editingExpense' = IF saveReqs[k].idx + 1 < Len(saveReqs[k].confirm)
                       THEN saveReqs[k].confirm[saveReqs[k].idx + 2] ELSE Null
  /\ UNCHANGED dashVars
  /\ UNCHANGED formVars
  /\ UNCHANGED << store, groups, importedExpenses, filteredExpenses, selectedExpenses,
                  loading, message, filterVars, showEditModal, expensesToConfirm,
                  refreshCalls, msgTimers, nFetches, session, closed, sessionIds, sessionStart,
                  savedPos, advances, savedIds >>

\* handleSaveExpense after its await, request k rejected (lines 224-226)
SaveFail(k) ==
  /\ extra < MaxExtra
  /\ saveReqs' = Without(k)
  /\ error' = "Failed to save expense"
  /\ extra' = extra + 1
  /\ UNCHANGED dashVars
  /\ UNCHANGED formVars
  /\ UNCHANGED << store, groups, importedExpenses, filteredExpenses, selectedExpenses,
                  loading, message, filterVars, reviewVars, refreshCalls, msgTimers,
                  nFetches, session, closed, sessionIds, sessionStart, savedPos, advances,
                  savedIds >>

SaveRejected == \E k \in DOMAIN saveReqs : SaveFail(k)

\* HandleSkipExpense that sends the candidate it skips
HandleSkipExpensePosts ==
  /\ ModalShown
  /\ saveReqs' = Append(saveReqs,
                        [ data |-> ExpenseData(editingExpense, groups),
                          idx |-> editingExpenseIndex,
                          confirm |-> expensesToConfirm,
                          imported |-> importedExpenses,
                          selected |-> selectedExpenses,
                          exp |-> editingExpense,
                          sess |-> session ])
  /\ editingExpenseIndex' = editingExpenseIndex + 1
  /\ editingExpense' = IF editingExpenseIndex + 1 < Len(expensesToConfirm)
                       THEN expensesToConfirm[editingExpenseIndex + 2] ELSE Null
  /\ UNCHANGED dashVars
  /\ UNCHANGED formVars
  /\ advances' = advances + 1
  /\ UNCHANGED << store, groups, importedExpenses, filteredExpenses, selectedExpenses,
                  loading, message, error, filterVars, showEditModal, expensesToConfirm,
                  refreshCalls, msgTimers, nFetches, session, extra, closed, sessionIds,
                  sessionStart, savedPos, savedIds >>

\* handleSkipExpense (lines 229-243)
HandleSkipExpense ==
  /\ ModalShown
  /\ LET nextIndex == editingExpenseIndex + 1
     IN IF nextIndex < Len(expensesToConfirm)
        THEN /\ editingExpenseIndex' = nextIndex
             /\ editingExpense' = expensesToConfirm[nextIndex + 1]
             /\ UNCHANGED << showEditModal, importedExpenses, filteredExpenses,
                             selectedExpenses, expensesToConfirm >>
        ELSE /\ showEditModal' = FALSE
             /\ importedExpenses' =
                  SelectSeq2(importedExpenses,
                             { e \in Range(importedExpenses) : e.id \notin selectedExpenses })
             /\ selectedExpenses' = {}
             /\ expensesToConfirm' = <<>>
             /\ editingExpense' = Null
             /\ editingExpenseIndex' = 0
             /\ UNCHANGED filterVars
             /\ filteredExpenses' = Refiltered(importedExpenses')
  /\ UNCHANGED dashVars
  /\ UNCHANGED formVars
  /\ advances' = advances + 1
  /\ UNCHANGED << store, groups, loading, message, error, filterVars, saveReqs,
                  refreshCalls, msgTimers, nFetches, session, extra, closed, sessionIds,
                  sessionStart, savedPos, savedIds >>

\* the modal's close button and its overlay (lines 618, 622)
CloseModal ==
  /\ ModalShown
  /\ extra < MaxExtra
  /\ showEditModal' = FALSE
  /\ extra' = extra + 1
  /\ closed' = TRUE
  /\ UNCHANGED dashVars
  /\ UNCHANGED formVars
  /\ UNCHANGED << store, groups, importedExpenses, filteredExpenses, selectedExpenses,
                  loading, message, error, filterVars, expensesToConfirm,
                  editingExpenseIndex, editingExpense, saveReqs, refreshCalls,
                  msgTimers, nFetches, session, sessionIds, sessionStart, savedPos, advances,
                  savedIds >>

\* the timer of line 222 fires
MessageTimeout ==
  /\ msgTimers > 0
  /\ msgTimers' = msgTimers - 1
  /\ message' = NoMessage
  /\ UNCHANGED dashVars
  /\ UNCHANGED formVars
  /\ UNCHANGED << store, groups, importedExpenses, filteredExpenses, selectedExpenses,
                  loading, error, filterVars, reviewVars, saveReqs, refreshCalls,
                  histVars >>

\* what the user does
UserNext ==
  \/ ToggleImportForm
  \/ HandleImportExpenses
  \/ SetSearchQuery
  \/ SetFilterCategory
  \/ SetFilterType
  \/ SetFilterDateFrom
  \/ SetFilterDateTo
  \/ ClearFilters
  \/ ToggleExpenseSelection
  \/ SelectAll
  \/ HandleAddToExpenses
  \/ EditDescription
  \/ EditAmount
  \/ EditCurrency
  \/ EditDate
  \/ EditCategory
  \/ EditGroup
  \/ HandleSaveExpense
  \/ HandleSkipExpense
  \/ CloseModal

\* what the backend and the timers do
SystemNext ==
  \/ FetchGroupsOk
  \/ ImportOk
  \/ ImportEmpty
  \/ ImportFail
  \/ SaveAccepted
  \/ SaveRejected
  \/ MessageTimeout

Next == UserNext \/ SystemNext

Spec == Init /\ [][Next]_vars

\* the user waits for every create request to be answered before acting again
NextSeq ==
  \/ (saveReqs = <<>> /\ ToggleImportForm)
  \/ (saveReqs = <<>> /\ HandleImportExpenses)
  \/ (saveReqs = <<>> /\ SetSearchQuery)
  \/ (saveReqs = <<>> /\ SetFilterCategory)
  \/ (saveReqs = <<>> /\ SetFilterType)
  \/ (saveReqs = <<>> /\ SetFilterDateFrom)
  \/ (saveReqs = <<>> /\ SetFilterDateTo)
  \/ (saveReqs = <<>> /\ ClearFilters)
  \/ (saveReqs = <<>> /\ ToggleExpenseSelection)
  \/ (saveReqs = <<>> /\ SelectAll)
  \/ (saveReqs = <<>> /\ HandleAddToExpenses)
  \/ (saveReqs = <<>> /\ EditDescription)
  \/ (saveReqs = <<>> /\ EditAmount)
  \/ (saveReqs = <<>> /\ EditCurrency)
  \/ (saveReqs = <<>> /\ EditDate)
  \/ (saveReqs = <<>> /\ EditCategory)
  \/ (saveReqs = <<>> /\ EditGroup)
  \/ (saveReqs = <<>> /\ HandleSaveExpense)
  \/ (saveReqs = <<>> /\ HandleSkipExpense)
  \/ (saveReqs = <<>> /\ CloseModal)
  \/ SystemNext

SpecSeq == Init /\ [][NextSeq]_vars

\* ------------------------------------------------------------ import form

\* the inputs of the import form leave everything but the form as it is
FormFrame ==
  /\ UNCHANGED dashVars
  /\ UNCHANGED << store, uiVars, importPayload, saveReqs, refreshCalls, msgTimers, histVars >>

\* the mode buttons (lines 326-341)
SetImportMode ==
  /\ ~ModalShown
  /\ showImportForm
  /\ \E mode \in {"dateRange", "monthYear"} :
       /\ mode # importMode
       /\ importMode' = mode
  /\ UNCHANGED << showImportForm, startDate, endDate, selectedMonth, selectedYear >>
  /\ FormFrame

\* the Start Date input, shown in the mode 'dateRange' (lines 343, 351-358)
SetStartDate ==
  /\ ~ModalShown
  /\ showImportForm
  /\ importMode = "dateRange"
  /\ \E d \in WindowDateInputs \cup { <<>> } :
       /\ d # startDate
       /\ startDate' = d
  /\ UNCHANGED << showImportForm, importMode, endDate, selectedMonth, selectedYear >>
  /\ FormFrame

\* the End Date input, shown in the mode 'dateRange' (lines 343, 364-371)
SetEndDate ==
  /\ ~ModalShown
  /\ showImportForm
  /\ importMode = "dateRange"
  /\ \E d \in WindowDateInputs \cup { <<>> } :
       /\ d # endDate
       /\ endDate' = d
  /\ UNCHANGED << showImportForm, importMode, startDate, selectedMonth, selectedYear >>
  /\ FormFrame

\* the Month select, shown in the mode 'monthYear' (lines 384-404)
SetSelectedMonth ==
  /\ ~ModalShown
  /\ showImportForm
  /\ importMode = "monthYear"
  /\ \E m \in MonthInputs \cup { "" } :
       /\ m # selectedMonth
       /\ selectedMonth' = m
  /\ UNCHANGED << showImportForm, importMode, startDate, endDate, selectedYear >>
  /\ FormFrame

\* the Year input, shown in the mode 'monthYear' (lines 410-419)
SetSelectedYear ==
  /\ ~ModalShown
  /\ showImportForm
  /\ importMode = "monthYear"
  /\ \E y \in YearInputs \cup { CurrentYear, "" } :
       /\ y # selectedYear
       /\ selectedYear' = y
  /\ UNCHANGED << showImportForm, importMode, startDate, endDate, selectedMonth >>
  /\ FormFrame

FormNext ==
  \/ ToggleImportForm
  \/ SetImportMode
  \/ SetStartDate
  \/ SetEndDate
  \/ SetSelectedMonth
  \/ SetSelectedYear
  \/ HandleImportExpenses
  \/ ImportOk
  \/ ImportEmpty
  \/ ImportFail

\* the import page, the user filling in the import form and importing
SpecForm == Init /\ [][FormNext]_vars

\* -------------------------------------------------------------- dashboard
\* Dashboard.tsx: the lists the summary cards are computed from, and the requests
\* that fill them.
\*
\* The amounts of the dashboard are JavaScript Numbers, IEEE 754 doubles, and the
\* summary adds them up.  A Number is modelled exactly where it is a multiple of
\* 2^-56 of magnitude below 16: [neg, hi, lo] stands for the value
\* (+/-) (hi * 2^30 + lo) * 2^-56, with 0 <= lo < 2^30.  The doubles 0.1, 0.2, 0.3
\* and the small whole numbers are of this kind, and so are their sums.

\* 2^30, the base of the two limbs of a magnitude
LimbBase == 1073741824

\* the width of a double's significand, in bits
SignificandBits == 53

\* the Number of magnitude (hi * 2^30 + lo) * 2^-56
Dec(hi, lo) == [neg |-> FALSE, hi |-> hi, lo |-> lo]

\* the Number n, for a whole number 0 <= n < 16
Whole(n) == Dec(n * 67108864, 0)

Zero == Whole(0)

RECURSIVE BitLen(_)
\* the number of bits of a natural number
BitLen(n) == IF n = 0 THEN 0 ELSE 1 + BitLen(n \div 2)

\* the number of bits of a magnitude
MagBits(a) == IF a.hi > 0 THEN 30 + BitLen(a.hi) ELSE BitLen(a.lo)

MagLess(a, b) == a.hi < b.hi \/ (a.hi = b.hi /\ a.lo < b.lo)

\* the exact sum of two magnitudes
MagAdd(a, b) ==
  LET lo == a.lo + b.lo
  IN [hi |-> a.hi + b.hi + (lo \div LimbBase), lo |-> lo % LimbBase]

\* the exact difference of two magnitudes, b not above a
MagSub(a, b) ==
  IF a.lo >= b.lo
  THEN [hi |-> a.hi - b.hi, lo |-> a.lo - b.lo]
  ELSE [hi |-> a.hi - b.hi - 1, lo |-> a.lo + LimbBase - b.lo]

\* a magnitude rounded to the nearest double, ties to the even significand
RoundMag(a) ==
  LET s == MagBits(a) - SignificandBits
  IN IF s <= 0 THEN a
     ELSE LET q == 2^s
              r == a.lo % q
              down == [hi |-> a.hi, lo |-> a.lo - r]
          IN IF 2 * r > q \/ (2 * r = q /\ (down.lo \div q) % 2 = 1)
             THEN MagAdd(down, [hi |-> 0, lo |-> q])
             ELSE down

\* a + b on Numbers: the exact sum, rounded
FAdd(a, b) ==
  IF a.neg = b.neg
  THEN [neg |-> a.neg] @@ RoundMag(MagAdd(a, b))
  ELSE IF MagLess(a, b) THEN [neg |-> b.neg] @@ RoundMag(MagSub(b, a))
       ELSE IF MagLess(b, a) THEN [neg |-> a.neg] @@ RoundMag(MagSub(a, b))
            ELSE Zero

\* a - b on Numbers
FSub(a, b) == FAdd(a, IF b = Zero THEN Zero ELSE [b EXCEPT !.neg = ~b.neg])

\* a || 0 on Numbers, a optional (undefined and 0 are falsy)
OrZero(a) == IF a # <<>> /\ a[1] # Zero THEN a[1] ELSE Zero

\* the doubles written 0.1, 0.2, 0.3 and 0.6
Tenth == Dec(6710886, 429496730)

TwoTenths == Dec(13421772, 858993460)

ThreeTenths == Dec(20132659, 214748364)

SixTenths == Dec(40265318, 429496728)

\* A snapshot is what GET /expenses or GET /income answers with: at most
\* MaxSnapshot records, no record twice.
MaxSnapshot == 3

\* Expenses as the backend returns them: x1, x4 and x5 with an owed_share, x2 with
\* an owed_share of 0, x3 (entered before owed_share existed) with none and with
\* its id in splitwise_id only
ExpenseRecords ==
  { [id |-> "x1", _id |-> "", splitwise_id |-> "", amount |-> Tenth,
     owed_share |-> <<Tenth>>],
    [id |-> "x2", _id |-> "", splitwise_id |-> "", amount |-> Whole(2),
     owed_share |-> <<Zero>>],
    [id |-> "", _id |-> "", splitwise_id |-> "sw3", amount |-> Whole(3),
     owed_share |-> <<>>],
    [id |-> "x4", _id |-> "", splitwise_id |-> "sw4", amount |-> Whole(2),
     owed_share |-> <<ThreeTenths>>],
    [id |-> "x5", _id |-> "", splitwise_id |-> "", amount |-> TwoTenths,
     owed_share |-> <<TwoTenths>>] }

\* Incomes as the backend returns them
IncomeRecords ==
  { [id |-> "i1", amount |-> SixTenths], [id |-> "i2", amount |-> Whole(2)],
    [id |-> "i3", amount |-> Zero] }

\* the sequences without repetition of at most n elements of S
Snapshots(S, n) ==
  UNION { { s \in [1..k -> S] : \A i, j \in 1..k : s[i] = s[j] => i = j } : k \in 0..n }

\* expensesWithId (lines 153-156 of Dashboard.tsx); the id generated from the
\* clock when all three are missing is "generated"
ExpensesWithId(expensesData) ==
  [i \in DOMAIN expensesData |->
     [expensesData[i] EXCEPT
        !.id = OrStr(expensesData[i].id,
                     OrStr(expensesData[i]._id,
                           OrStr(expensesData[i].splitwise_id, "generated")))]]

\* fetchExpenses after its await (lines 152-161 of Dashboard.tsx): the request
\* for a page answered with data
FetchExpensesAnswered(page, data) ==
  /\ expenses' = ExpensesWithId(data.expenses)
  /\ expensesTotal' = OrNum(<<data.total>>, 0)
  /\ expensesTotalPages' = OrNum(<<data.total_pages>>, 1)
  /\ expensesPage' = page

\* fetchExpenses (lines 143-167 of Dashboard.tsx), its request answered; it runs
\* on mount (line 138) and as the onExpenseAdded of the import page (line 847)
FetchExpensesOk ==
  /\ \E expensesData \in Snapshots(ExpenseRecords, MaxSnapshot) :
       /\ (ExpensesWithId(expensesData) # expenses \/ "expenses" \notin answered)
       /\ FetchExpensesAnswered(expensesPage,
                                [expenses |-> expensesData,
                                 total |-> Len(expensesData),
                                 total_pages |-> IF expensesData = <<>> THEN 0 ELSE 1])
  /\ answered' = answered \cup {"expenses"}
  /\ UNCHANGED << importVars, income, loadingExpenses, pageReqs, clearReqs, nClears >>

\* fetchIncome (lines 183-195 of Dashboard.tsx), its request answered
FetchIncomeOk ==
  /\ \E incomeData \in Snapshots(IncomeRecords, MaxSnapshot) :
       /\ (incomeData # income \/ "income" \notin answered)
       /\ income' = incomeData
  /\ answered' = answered \cup {"income"}
  /\ UNCHANGED << importVars, expenses, pageVars, loadingExpenses, pageReqs, clearReqs,
                  nClears >>

RECURSIVE IncomeSum(_, _)
\* income.reduce((sum, i) => sum + (i.amount || 0), 0) over the first n incomes
IncomeSum(list, n) ==
  IF n = 0 THEN Zero ELSE FAdd(IncomeSum(list, n - 1), OrZero(<<list[n].amount>>))

\* OwedSum whose reduce has no initial value, which throws on an empty list
RECURSIVE OwedSumNoInit(_, _)
OwedSumNoInit(list, n) ==
  IF n = 0 THEN [error |-> "TypeError"]
  ELSE IF n = 1 THEN OrZero(list[1].owed_share)
  ELSE FAdd(OwedSumNoInit(list, n - 1), OrZero(list[n].owed_share))

RECURSIVE OwedSum(_, _)
\* expenses.reduce((sum, e) => sum + (e.owed_share || 0), 0) over the first n expenses
OwedSum(list, n) ==
  IF n = 0 THEN Zero ELSE FAdd(OwedSum(list, n - 1), OrZero(list[n].owed_share))

\* the summary values (lines 417-419 of Dashboard.tsx)
totalIncome == IncomeSum(income, Len(income))

youOwe == OwedSum(expenses, Len(expenses))

netBalance == FSub(totalIncome, youOwe)

DashNext == FetchExpensesOk \/ FetchIncomeOk

\* the dashboard alone, from its mount
SpecDash == Init /\ [][DashNext]_vars


\* ------------------------------------------------- dashboard expense pages

\* Dashboard.tsx, line 94: useState(20), never set
expensesLimit == 20

\* requests of the dashboard in flight at a time
MaxPending == 1

\* expenses the user deletes from the dashboard
MaxClears == 2

Half == Dec(33554432, 0)               \* 0.5

\* the ids of the user's persisted Expenses: one more than a page holds
PagedIds ==
  << "p01", "p02", "p03", "p04", "p05", "p06", "p07", "p08", "p09", "p10", "p11",
     "p12", "p13", "p14", "p15", "p16", "p17", "p18", "p19", "p20", "p21" >>

\* an Expense as GET /expenses returns it
PagedExpense(id) ==
  [id |-> id, _id |-> id, splitwise_id |-> "", amount |-> Whole(1), owed_share |-> << Half >>]

PagedStore == [i \in 1 .. expensesLimit + 1 |-> PagedExpense(PagedIds[i])]

\* the id of an Expense created while the dashboard is open
FreshId == "p22"

\* GET /expenses?page=&limit= over the Expenses st: the items of the page, the
\* total count and the total number of pages
PageResponse(st, page) ==
  LET total == Len(st)
      first == (page - 1) * expensesLimit + 1
      last  == IF page * expensesLimit < total THEN page * expensesLimit ELSE total
  IN  [expenses    |-> SubSeq(st, first, last),
       total       |-> total,
       total_pages |-> (total + expensesLimit - 1) \div expensesLimit]

InitPages == InitWith(PagedStore)

Pending == Len(pageReqs) + Len(clearReqs)

\* fetchExpenses up to its await (lines 143-151 of Dashboard.tsx)
RequestPage(page) ==
  /\ loadingExpenses' = TRUE
  /\ pageReqs' = Append(pageReqs, page)

\* fetchExpenses() of the mount effect (line 138)
MountFetch ==
  /\ "expenses" \notin answered
  /\ pageReqs = <<>>
  /\ RequestPage(expensesPage)
  /\ UNCHANGED << importVars, expenses, income, pageVars, clearReqs, nClears, answered >>

\* the import page persists an Expense and calls onExpenseAdded (line 847):
\* fetchExpenses(expensesPage)
OnExpenseAdded ==
  /\ "expenses" \in answered
  /\ Pending < MaxPending
  /\ FreshId \notin Ids(store)
  /\ store' = Append(store, PagedExpense(FreshId))
  /\ RequestPage(expensesPage)
  /\ UNCHANGED << uiVars, formVars, saveReqs, refreshCalls, msgTimers, histVars >>
  /\ UNCHANGED << expenses, income, pageVars, clearReqs, nClears, answered >>

\* the pagination buttons (lines 760-780), rendered under the list (lines 671-676)
PaginationShown == ~loadingExpenses /\ expenses # <<>> /\ expensesTotalPages > 1

PreviousPage ==
  /\ PaginationShown
  /\ expensesPage # 1
  /\ Pending < MaxPending
  /\ RequestPage(expensesPage - 1)
  /\ UNCHANGED << importVars, expenses, income, pageVars, clearReqs, nClears, answered >>

NextPage ==
  /\ PaginationShown
  /\ ~(expensesPage >= expensesTotalPages)
  /\ Pending < MaxPending
  /\ RequestPage(expensesPage + 1)
  /\ UNCHANGED << importVars, expenses, income, pageVars, clearReqs, nClears, answered >>

PageWithout(k) == SubSeq(pageReqs, 1, k - 1) \o SubSeq(pageReqs, k + 1, Len(pageReqs))

\* fetchExpenses after its await, the request answered (lines 152-161, 164-166)
PageOk ==
  \E k \in DOMAIN pageReqs :
    /\ FetchExpensesAnswered(pageReqs[k], PageResponse(store, pageReqs[k]))
    /\ loadingExpenses' = FALSE
    /\ pageReqs' = PageWithout(k)
    /\ answered' = answered \cup {"expenses"}
    /\ UNCHANGED << importVars, income, clearReqs, nClears >>

\* fetchExpenses, the request failing (lines 162-166)
PageFail ==
  \E k \in DOMAIN pageReqs :
    /\ "expenses" \in answered
    /\ loadingExpenses' = FALSE
    /\ pageReqs' = PageWithout(k)
    /\ UNCHANGED << importVars, expenses, income, pageVars, clearReqs, nClears, answered >>

\* handleClearExpense up to its await (lines 335-350), the user confirming
HandleClearExpense ==
  \E i \in DOMAIN expenses :
    /\ Pending < MaxPending
    /\ nClears + Len(clearReqs) < MaxClears
    /\ clearReqs' = Append(clearReqs, [id |-> expenses[i].id, page |-> expensesPage])
    /\ UNCHANGED << importVars, expenses, income, pageVars, loadingExpenses, pageReqs,
                    nClears, answered >>

ClearWithout(k) == SubSeq(clearReqs, 1, k - 1) \o SubSeq(clearReqs, k + 1, Len(clearReqs))

\* handleClearExpense after its await (line 351): the Expense deleted,
\* fetchExpenses() called, its page the expensesPage of the handler's closure
ClearOk ==
  \E k \in DOMAIN clearReqs :
    /\ clearReqs[k].id \in Ids(store)
    /\ store' = SelectSeq2(store, {x \in Range(store) : x.id # clearReqs[k].id})
    /\ RequestPage(clearReqs[k].page)
    /\ clearReqs' = ClearWithout(k)
    /\ nClears' = nClears + 1
    /\ UNCHANGED << uiVars, formVars, saveReqs, refreshCalls, msgTimers, histVars >>
    /\ UNCHANGED << expenses, income, pageVars, answered >>

\* handleClearExpense, the request rejected (lines 352-355)
ClearFail ==
  \E k \in DOMAIN clearReqs :
    /\ clearReqs' = ClearWithout(k)
    /\ UNCHANGED << importVars, expenses, income, pageVars, loadingExpenses, pageReqs,
                    nClears, answered >>

PagesNext ==
  \/ MountFetch
  \/ OnExpenseAdded
  \/ PreviousPage
  \/ NextPage
  \/ PageOk
  \/ PageFail
  \/ HandleClearExpense
  \/ ClearOk
  \/ ClearFail

\* the dashboard's expense list over a collection of more than one page
SpecPages == InitPages /\ [][PagesNext]_vars

\* ----------------------------------------------------------------- claims
\* the candidate with a given id as the import presented it
FetchedCandidate(id) == Fetched(id) @@ [already_imported |-> FALSE]

\* ids of the records of the batch that were not imported before the run
Candidates == { r.id : r \in { b \in Range(Batch) :
                  \A j \in DOMAIN InitStore : InitStore[j].splitwise_id # RecordExtId(b) } }

\* the review state the workflow is to be in after an advancing operation at
\* position i of the subset c: ReviewingAt(i+1, N), or Complete
ReviewAfter(i, c) ==
  IF i + 1 < Len(c) THEN << TRUE, c, i + 1, c[i + 2] >> ELSE << FALSE, <<>>, 0, Null >>

\* the number of Expenses persisted since the current session started that carry
\* the external id of the candidate with a given id
PersistedFor(id) ==
  Cardinality({ j \in (sessionStart + 1)..Len(store) :
                  store[j].splitwise_id = RecordExtId(Fetched(id)) })

NoFilters == filterVars = NoFilter

\* C1: a Save pressed at position i of N whose request is accepted, the workflow
\* being still at that position, appends exactly one Expense carrying the
\* candidate's description, currency, date and external id, and moves to i+1 with
\* expensesToConfirm[i+1] current if i+1 < N, else to Complete (modal closed,
\* subset emptied, index 0, no current candidate).
C1_SaveAndAdvance ==
  [][ \A k \in DOMAIN saveReqs :
        LET r == saveReqs[k] IN
          ( /\ SaveOk(k)
            /\ ModalShown
            /\ r.idx = editingExpenseIndex
            /\ r.confirm = expensesToConfirm
            /\ r.idx < Len(r.confirm) )
          => /\ Len(store') = Len(store) + 1
             /\ SubSeq(store', 1, Len(store)) = store
             /\ store'[Len(store')].description = r.exp.description
             /\ store'[Len(store')].currency = r.exp.currency
             /\ store'[Len(store')].date = r.exp.date
             /\ store'[Len(store')].splitwise_id = RecordExtId(r.exp)
             /\ reviewVars' = ReviewAfter(r.idx, r.confirm) ]_vars

C1_Witness ==
  /\ ModalShown
  /\ savedPos = {0}
  /\ editingExpenseIndex = 1
  /\ Len(expensesToConfirm) = 3
  /\ editingExpense = expensesToConfirm[2]
  /\ Len(store) = sessionStart + 1
  /\ saveReqs = <<>>

\* C2: Skip at position i of N issues no create request, leaves the persisted
\* Expenses unchanged and makes the position transition of a successful Save: to
\* i+1 if i+1 < N, else to Complete.
C2_SkipAndAdvance ==
  [][ HandleSkipExpense
      => /\ store' = store
         /\ saveReqs' = saveReqs
         /\ reviewVars' = ReviewAfter(editingExpenseIndex, expensesToConfirm) ]_vars

C2_Witness ==
  /\ ModalShown
  /\ editingExpenseIndex = 1
  /\ Len(expensesToConfirm) = 2
  /\ editingExpense = expensesToConfirm[2]
  /\ savedPos = {}
  /\ saveReqs = <<>>
  /\ store = InitStore
  /\ error = ""
  /\ session = 1

\* C3: when a create request is rejected an error is reported, nothing is persisted,
\* and the position, the subset and the current candidate (with its edits) stay as
\* they are, so that Save can be pressed again on the same item.
C3_SaveFailureStaysInPlace ==
  [][ \A k \in DOMAIN saveReqs :
        SaveFail(k)
        => /\ error' # ""
           /\ store' = store
           /\ reviewVars' = reviewVars
           /\ (ModalShown => ModalShown') ]_vars

\* a one-candidate session in which the first Save was rejected and the second
\* accepted: the review is complete with exactly one Expense for the item
C3_Witness ==
  /\ session = 1
  /\ extra = 1
  /\ closed = FALSE
  /\ Len(sessionIds) = 1
  /\ error = "Failed to save expense"
  /\ savedPos = {0}
  /\ ~showEditModal
  /\ saveReqs = <<>>
  /\ PersistedFor(sessionIds[1]) = 1

\* C4: "Add Selected" either opens the review on a non-empty subset with a current
\* candidate, or reports an error and leaves the review state alone; the review is
\* never open on an empty subset.
C4_ReviewNeverEmpty ==
  [][ /\ HandleAddToExpenses
         => \/ (showEditModal' /\ Len(expensesToConfirm') >= 1 /\ editingExpense' # Null)
            \/ (error' # "" /\ reviewVars' = reviewVars)
      /\ ~(showEditModal' /\ Len(expensesToConfirm') = 0) ]_vars

\* C5: within a review session, whose create requests alone are in flight, the
\* position never decreases.
C5_ForwardOnly ==
  [][ ( /\ showEditModal
        /\ showEditModal'
        /\ session' = session
        /\ \A k \in DOMAIN saveReqs : saveReqs[k].sess = session )
      => editingExpenseIndex' >= editingExpenseIndex ]_vars

\* C6: the amount sent for persistence is the candidate's owed_share whenever
\* owed_share is present, 0 included, and its raw amount only when owed_share is
\* absent.
C6_AmountIsOwedShare ==
  \A k \in DOMAIN saveReqs :
    saveReqs[k].data.amount =
      IF saveReqs[k].exp.owed_share # <<>>
      THEN saveReqs[k].exp.owed_share[1]
      ELSE saveReqs[k].exp.amount

\* C7: every field the user changed on the candidate is sent as changed
\* (description, amount, currency, date, category, group), and the candidates of
\* the subset keep their fetched values.
C7_EditsPersisted ==
  /\ \A k \in DOMAIN saveReqs :
       LET e == saveReqs[k].exp
           d == saveReqs[k].data
           f == FetchedCandidate(e.id)
       IN /\ e.description # f.description => d.description = e.description
          /\ e.owed_share # f.owed_share => d.amount = e.owed_share[1]
          /\ e.currency # f.currency => d.currency = e.currency
          /\ e.date # f.date => d.date = e.date
          /\ e.category # f.category => d.category = e.category
          /\ e.group_id # f.group_id => d.group_id = e.group_id
  /\ \A i \in DOMAIN expensesToConfirm :
       expensesToConfirm[i] = FetchedCandidate(expensesToConfirm[i].id)

\* C8: when the user waits for each request to be answered before acting again,
\* the Expenses persisted since the session started are one for each candidate
\* whose Save succeeded and none for any other candidate of the subset.
C8_OneExpensePerSavedCandidate ==
  \A p \in DOMAIN sessionIds :
    PersistedFor(sessionIds[p]) = IF (p - 1) \in savedPos THEN 1 ELSE 0

\* Scenario B: the first of three candidates skipped, the other two saved
C8_Witness ==
  /\ Len(sessionIds) = 3
  /\ savedPos = {1, 2}
  /\ ~showEditModal
  /\ expensesToConfirm = <<>>
  /\ Len(store) = sessionStart + 2

\* C9: the candidate under review keeps the splitwise_id it was fetched with, every
\* create request carries the external id of the fetched record, and the Expenses
\* created carry exactly the external ids of the candidates saved.
C9_ExternalIdCarried ==
  /\ editingExpense # Null
       => editingExpense.splitwise_id = Fetched(editingExpense.id).splitwise_id
  /\ \A k \in DOMAIN saveReqs :
       saveReqs[k].data.splitwise_id = RecordExtId(Fetched(saveReqs[k].exp.id))
  /\ { store[j].splitwise_id : j \in (Len(InitStore) + 1)..Len(store) }
       = { RecordExtId(Fetched(id)) : id \in savedIds }

\* an Expense created from an edited candidate that has no splitwise_id
C9_Witness ==
  \E j \in (Len(InitStore) + 1)..Len(store) :
    /\ store[j].splitwise_id = "e2"
    /\ store[j].currency # Fetched("e2").currency

\* C10: an import answered after the candidates of S were saved lists exactly the
\* new records of the batch that are not in S, and displays them all when no
\* filter is set.
C10_ReimportPresentsUnsaved ==
  [][ ImportOk
      => /\ Ids(importedExpenses') = Candidates \ savedIds
         /\ (NoFilters => filteredExpenses' = importedExpenses') ]_vars

\* a second import after a session that saved e1 and skipped e2
C10_Witness ==
  /\ nFetches = 2
  /\ ~loading
  /\ message = [kind |-> "found", new |-> 2, old |-> 2]
  /\ savedIds = {"e1"}
  /\ Ids(importedExpenses) = {"e2", "e3"}
  /\ Len(sessionIds) = 2
  /\ saveReqs = <<>>

\* the external ids for which a create request of the import page has succeeded
SavedExtIds == { RecordExtId(Fetched(id)) : id \in savedIds }

\* C11: no create request is issued for an external id for which an earlier create
\* request of the import page has succeeded, and no review session is started on a
\* candidate that has been persisted.
C11_NoSecondCreate ==
  [][ /\ HandleSaveExpense => ExtId(editingExpense) \notin SavedExtIds
      /\ HandleAddToExpenses
           => \A i \in DOMAIN expensesToConfirm' :
                ExtId(expensesToConfirm'[i]) \notin SavedExtIds ]_vars

\* C12: no two create requests for the same external id are in flight together: a
\* second Save pressed while the request of the current candidate is unanswered
\* sends nothing.
C12_NoDuplicateSubmission ==
  \A k1, k2 \in DOMAIN saveReqs :
    k1 # k2 => saveReqs[k1].data.splitwise_id # saveReqs[k2].data.splitwise_id

\* C13: a review session that ends, by a Save or by a Skip, calls onExpenseAdded
\* exactly once, and onExpenseAdded is called at no other moment.
C13_CompleteNotifiesOnce ==
  [][ /\ (showEditModal /\ expensesToConfirm # <<>> /\ expensesToConfirm' = <<>>)
           => refreshCalls' = refreshCalls + 1
      /\ refreshCalls' # refreshCalls
           => (showEditModal /\ expensesToConfirm # <<>> /\ expensesToConfirm' = <<>>) ]_vars

\* C14: once the modal has been closed, the answer to a create request that was in
\* flight at the close persists nothing and changes neither the position, the
\* current candidate, the subset, the candidate list nor the messages.
C14_CloseCancels ==
  [][ \A k \in DOMAIN saveReqs :
        ( /\ closed
          /\ saveReqs[k].sess = session
          /\ (SaveOk(k) \/ SaveFail(k)) )
        => /\ store' = store
           /\ reviewVars' = reviewVars
           /\ importedExpenses' = importedExpenses
           /\ message' = message
           /\ error' = error ]_vars

\* C15: the answer to a create request issued in an earlier session changes
\* neither the subset, the position nor the current candidate of the session that
\* is open.
C15_OnlyOwnSessionAdvances ==
  [][ \A k \in DOMAIN saveReqs :
        ( /\ ModalShown
          /\ saveReqs[k].sess # session
          /\ (SaveOk(k) \/ SaveFail(k)) )
        => reviewVars' = reviewVars ]_vars

\* C16: every candidate of the imported list, of the filtered list and of the review
\* subset, and the candidate under review, carries already_imported = FALSE as the
\* fetch labelled it, and only such candidates are ever selected.
C16_OnlyNewOffered ==
  /\ \A e \in Range(importedExpenses) \cup Range(filteredExpenses)
               \cup Range(expensesToConfirm) : ~e.already_imported
  /\ editingExpense # Null => ~editingExpense.already_imported
  /\ selectedExpenses \subseteq Candidates

\* a review of all that the fetch offered, the batch holding a record that the
\* fetch labelled as imported already
C16_Witness ==
  /\ \E i \in DOMAIN Labelled(store) : Labelled(store)[i].already_imported
  /\ message = [kind |-> "found", new |-> 3, old |-> 1]
  /\ ModalShown
  /\ Len(filteredExpenses) = 3
  /\ Ids(expensesToConfirm) = Candidates
  /\ selectedExpenses = Candidates
  /\ editingExpenseIndex = 2

\* C17: an import request that fails sets an error and clears the loading flag; it
\* persists nothing, starts no review, issues no further request, and leaves the
\* candidate list, the filtered list and the selection as they were.
C17_FailedFetchAborts ==
  [][ ImportFail
      => /\ error' # ""
         /\ ~loading'
         /\ store' = store
         /\ saveReqs' = saveReqs
         /\ reviewVars' = reviewVars
         /\ nFetches' = nFetches
         /\ importedExpenses' = importedExpenses
         /\ filteredExpenses' = filteredExpenses
         /\ selectedExpenses' = selectedExpenses ]_vars

\* a second import that failed while the candidates of the first were listed
C17_Witness ==
  /\ nFetches = 2
  /\ ~loading
  /\ error = "Failed to import expenses"
  /\ Len(importedExpenses) = 3
  /\ ~showEditModal
  /\ store = InitStore

\* C18: no step of the import page updates or deletes an Expense: every Expense
\* persisted before a step is persisted, unchanged, after it.
C18_ExistingExpensesUntouched ==
  [][ /\ Len(store') >= Len(store)
      /\ SubSeq(store', 1, Len(store)) = store ]_vars

\* a session of two candidates, the first skipped, the second saved at the second
\* attempt after a rejected one: the Expense that was there before is still first
C18_Witness ==
  /\ Len(sessionIds) = 2
  /\ savedPos = {1}
  /\ error = "Failed to save expense"
  /\ ~showEditModal
  /\ expensesToConfirm = <<>>
  /\ saveReqs = <<>>
  /\ Len(store) = Len(InitStore) + 1
  /\ SubSeq(store, 1, Len(InitStore)) = InitStore

RECURSIVE OwedOrAmountSum(_, _)
\* the sum, over the first n expenses, of owed_share where present, else of amount
OwedOrAmountSum(list, n) ==
  IF n = 0 THEN Zero
  ELSE FAdd(OwedOrAmountSum(list, n - 1),
            IF list[n].owed_share # <<>> THEN list[n].owed_share[1] ELSE list[n].amount)

RECURSIVE AmountSum(_, _)
\* the sum of the amounts of the first n incomes
AmountSum(list, n) ==
  IF n = 0 THEN Zero ELSE FAdd(AmountSum(list, n - 1), list[n].amount)

\* C19: the total owed shown is the sum, over the expenses loaded, of owed_share
\* where it is present and of amount where it is not.
C19_TotalOwed ==
  youOwe = OwedOrAmountSum(expenses, Len(expenses))

\* C20: the net balance shown is the sum of the incomes' amounts minus the total
\* owed of the expenses loaded (owed_share where present, else amount).
C20_NetBalance ==
  netBalance = FSub(AmountSum(income, Len(income)),
                    OwedOrAmountSum(expenses, Len(expenses)))

\* the permutations of 1..n
Perms(n) == { f \in [1..n -> 1..n] : \A i, j \in 1..n : f[i] = f[j] => i = j }

\* a list in the order f
Permuted(list, f) == [i \in DOMAIN list |-> list[f[i]]]

\* C21: the total income, the total owed and the net balance computed from the lists
\* loaded are those computed from the same lists in any other order.
C21_OrderIndependent ==
  \A f \in Perms(Len(expenses)), g \in Perms(Len(income)) :
    /\ OwedSum(Permuted(expenses, f), Len(expenses)) = youOwe
    /\ IncomeSum(Permuted(income, g), Len(income)) = totalIncome
    /\ FSub(IncomeSum(Permuted(income, g), Len(income)),
            OwedSum(Permuted(expenses, f), Len(expenses))) = netBalance

\* C22: with no expenses and no incomes loaded, total income, total owed and net
\* balance are all 0.
C22_EmptyIsZero ==
  (expenses = <<>> /\ income = <<>>) =>
    /\ youOwe = Zero
    /\ totalIncome = Zero
    /\ netBalance = Zero

\* both lists were fetched and both came back empty
C22_Witness ==
  /\ answered = {"expenses", "income"}
  /\ expenses = <<>>
  /\ income = <<>>
  /\ netBalance = Zero

\* C24: whenever the dashboard has loaded its expense list and none of its requests
\* is in flight, the total owed and the net balance it shows are those of all the
\* persisted Expenses, whichever page of the list is loaded.
C24_TotalOwedOfAllPersisted ==
  (Pending = 0 /\ "expenses" \in answered) =>
    /\ youOwe = OwedSum(store, Len(store))
    /\ netBalance = FSub(totalIncome, OwedSum(store, Len(store)))

\* C29: the page of the expense list is at least 1 and at most the number of
\* pages (or 1 when there are none).
C29_PageInRange ==
  /\ 1 <= expensesPage
  /\ expensesPage <= (IF expensesTotalPages > 1 THEN expensesTotalPages ELSE 1)

\* C23: a review session of N candidates completes after exactly N advancing
\* operations (Skips and successful Saves), never after fewer or more.
C23_CompleteAfterN ==
  [][(showEditModal /\ ~showEditModal' /\ ~closed') => advances' = Len(sessionIds)]_vars

\* C25: when a review session completes, the candidates removed from the list of
\* imported candidates are exactly those of the session's review subset.
C25_CompletionRemovesSubset ==
  [][(showEditModal /\ ~showEditModal' /\ ~closed') =>
       Ids(importedExpenses') = Ids(importedExpenses) \ Range(sessionIds)]_vars

\* C26: when a review session ends with the message that k expenses were added,
\* k is the number of Expenses the session persisted.
C26_MessageCountsPersisted ==
  [][(SaveAccepted /\ showEditModal /\ ~showEditModal') =>
       /\ message'.kind = "added"
       /\ message'.n = Cardinality(savedPos')
       /\ message'.n = Len(store') - sessionStart]_vars

\* C27: selectAll selects exactly the displayed candidates when one of them is
\* unselected, and clears the selection only when all of them are selected.
C27_SelectAllOnDisplayed ==
  [][SelectAll =>
       IF Ids(filteredExpenses) \subseteq selectedExpenses
       THEN selectedExpenses' = {}
       ELSE selectedExpenses' = Ids(filteredExpenses)]_vars

\* the month a value of the Month select stands for
MonthOf(m) ==
  CHOOSE n \in 1 .. 12 :
    << "1", "2", "3", "4", "5", "6", "7", "8", "9", "10", "11", "12" >>[n] = m

\* the year a value of the Year input stands for
YearOf(y) == CASE y = "2024" -> 2024 [] y = CurrentYear -> 2026

DaysIn(year, month) ==
  IF month = 2
  THEN IF year % 4 = 0 /\ (year % 100 # 0 \/ year % 400 = 0) THEN 29 ELSE 28
  ELSE IF month \in {4, 6, 9, 11} THEN 30 ELSE 31

\* the window of a month: its first and its last day
MonthWindow(year, month) ==
  [start_date |-> << year, month, 1 >>, end_date |-> << year, month, DaysIn(year, month) >>]

\* C28: the import request carries the window of the selected month of the selected
\* year in the mode 'monthYear', and the start and end dates entered (each left
\* out when empty) in the mode 'dateRange'.
C28_WindowFollowsMode ==
  [][HandleImportExpenses =>
       importPayload' = IF importMode = "monthYear"
                        THEN MonthWindow(YearOf(selectedYear), MonthOf(selectedMonth))
                        ELSE [start_date |-> startDate, end_date |-> endDate]]_vars

====
